---- MODULE Spec2Model ----
(***************************************************************************)
(* Model of pretix/base/models/items.py: the quota availability engine     *)
(* (Quota.availability, count_orders, count_in_cart, _position_lookup,     *)
(* Item.check_quotas, ItemVariation.check_quotas), the sale window         *)
(* (Item.is_available) and the variation combinatorics                     *)
(* (Item.get_all_variations, Item.get_all_available_variations).           *)
(***************************************************************************)
EXTENDS Integers, Sequences, FiniteSets, Bags, TLC

(***************************************************************************)
(* Bounds of the model.                                                    *)
(***************************************************************************)
\* Largest finite Quota.size drawn in Init.
MaxSize == 2
\* Largest value of the clock now().
MaxTime == 2
\* Largest number of order positions plus cart positions in the store.
MaxPositions == 2
\* Largest number of ItemVariation rows of the product.
MaxVariations == 1
\* Largest number of "property:value" pairs in one add_values_from_string.
MaxPairs == 1

(***************************************************************************)
(* Program constants.                                                      *)
(***************************************************************************)
AVAILABILITY_GONE == 0
AVAILABILITY_ORDERED == 10
AVAILABILITY_RESERVED == 20
AVAILABILITY_OK == 100
\* sys.maxsize, the stand-in for None in the sort key of check_quotas.  Its
\* value on a 32-bit build; on every build it is at least the largest value
\* a PositiveIntegerField (Quota.size) can hold.
SysMaxsize == 2147483647

\* Python's None / SQL NULL, kept apart from every id, size, count and time
\* (all of which are >= 0).
None == -1
\* Order.STATUS_PAID and Order.STATUS_PENDING, referenced by count_orders.
STATUS_PAID == "p"
STATUS_PENDING == "n"

(***************************************************************************)
(* The catalog universe: one product, its one ItemVariation, two quotas.    *)
(***************************************************************************)
Items == {1}
\* The properties of the event and the ids a PropertyValue row can have,
\* each with the property it is a value of.
Props == {1, 2}
ValueIds == {1, 2, 3}
PropOf == (1 :> 1) @@ (2 :> 1) @@ (3 :> 2)
\* Item.default_price of the product and the price a variation overrides
\* it with, in cents.
ItemPrice == 10
OverridePrice == 5
Variations == {1}
Quotas == {1, 2}
Times == 0..MaxTime
Sizes == {None} \cup (0..MaxSize)

VARIABLES
    now,             \* django.utils.timezone.now()
    quotas,          \* Quota rows: size, items (M2M), variations (M2M)
    orderPositions,  \* bag of OrderPosition rows joined with their Order
    cartPositions,   \* bag of CartPosition rows
    items,           \* Item rows: active, sale window, default_price
    properties,      \* Property.item: property id -> item id or None
    propertyValues,  \* PropertyValue.prop: id of an existing value -> property
    variations,      \* ItemVariation rows: id of an existing row -> record
    instances,       \* Item objects in memory: their row and cache attributes
    evaluation,      \* the Quota.availability() call in progress, if any
    result           \* outcome of the call that has just returned, or None

\* The catalog, which the catalog-management workflows write.
catalog == <<items, properties, propertyValues, variations>>

\* The state of the running Python process, which no store write touches.
local == <<instances, evaluation>>

vars == <<now, quotas, orderPositions, cartPositions, catalog, local, result>>

\* The Item objects the process holds.
Instances == {1, 2}

\* An attribute that has not been set (hasattr is False).
Unset == [set |-> FALSE, value |-> << >>]

\* An Item object as the store returns it: neither cache attribute is set.
FreshInstance(i) ==
    [item |-> i, _get_all_variations_cache |-> Unset,
     _get_all_available_variations_cache |-> Unset]

\* No Quota.availability() call is in progress.
Idle == [pc |-> "idle"]

(***************************************************************************)
(* SQL aggregates over a bag of rows.                                      *)
(***************************************************************************)
\* Sum of the values of function f over the subset S of its domain.
RECURSIVE SumOver(_, _)
SumOver(f, S) ==
    IF S = {} THEN 0
    ELSE LET r == CHOOSE x \in S : TRUE
         IN  f[r] + SumOver(f, S \ {r})

\* Number of rows a query over bag B returns when row r of B is returned
\* weight[r] times per copy.
BagSum(B, weight) == SumOver([r \in DOMAIN B |-> weight[r] * B[r]], DOMAIN B)

\* A LEFT OUTER JOIN keeps the left row, with NULL columns, when the right
\* side has no matching row.
LeftOuter(S) == IF S = {} THEN {None} ELSE S

(***************************************************************************)
(* Quota._position_lookup and the rows the ORM joins for it.               *)
(***************************************************************************)
\* Rows of the item-quota M2M table for item i (the join item__quotas).
ItemQuotaRows(i) == {q \in Quotas : i \in quotas[q].items}

\* Rows of the variation-quota M2M table for variation v (variation__quotas).
VariationQuotaRows(v) ==
    IF v = None THEN {} ELSE {q \in Quotas : v \in quotas[q].variations}

\* The joined rows of one position: both M2M joins sit under an OR, so the
\* ORM makes them LEFT OUTER JOINs and every position yields the product
\* of its rows in both tables.
JoinedRows(p) ==
    LeftOuter(ItemQuotaRows(p.item)) \X LeftOuter(VariationQuotaRows(p.variation))

\* The Q object of _position_lookup, as the WHERE clause of one joined row:
\* (variation IS NULL AND item__quotas IN [self]) OR variation__quotas IN [self]
\* The lookup without its variation__isnull=True condition.
PositionLookupAnyVariation(self, p, row) ==
    \/ row[1] = self
    \/ row[2] = self

PositionLookup(self, p, row) ==
    \/ (p.variation = None /\ row[1] = self)
    \/ row[2] = self

\* Number of joined rows of position p that pass the filter for quota self.
MatchingRows(self, p) ==
    Cardinality({row \in JoinedRows(p) : PositionLookup(self, p, row)})

(***************************************************************************)
(* Quota.count_in_cart and Quota.count_orders.                             *)
(***************************************************************************)
\* count_in_cart that counts the reservations that have expired.
CountInCartExpired(self, t) ==
    BagSum(cartPositions,
           [p \in DOMAIN cartPositions |->
               IF p.expires <= t THEN MatchingRows(self, p) ELSE 0])

\* CartPosition.objects.filter(Q(expires__gte=now()) & lookup).count()
CountInCart(self, t) ==
    BagSum(cartPositions,
           [p \in DOMAIN cartPositions |->
               IF p.expires >= t THEN MatchingRows(self, p) ELSE 0])

\* Sum(Case(When(cond, then=1))) over the filtered rows: NULL when no row
\* meets the condition (cond is the set of positions that meet it).
SumCase(self, cond) ==
    LET s == BagSum(orderPositions,
                    [p \in DOMAIN orderPositions |->
                        IF p \in cond THEN MatchingRows(self, p) ELSE 0])
    IN  IF s = 0 THEN None ELSE s

NoneToZero(v) == IF v = None THEN 0 ELSE v

CountOrders(self, t) ==
    LET IsPaid == {p \in DOMAIN orderPositions : p.status = STATUS_PAID}
        IsPending == {p \in DOMAIN orderPositions :
                         p.status = STATUS_PENDING /\ p.expires >= t}
    IN  [paid |-> NoneToZero(SumCase(self, IsPaid)),
         pending |-> NoneToZero(SumCase(self, IsPending))]

(***************************************************************************)
(* Quota.availability: t1 is the clock read by count_orders, t2 the one    *)
(* read by count_in_cart.                                                  *)
(***************************************************************************)
\* Availability with "<" where the code has "<=" in the first comparison.
AvailabilityStrict(self, t1, t2) ==
    LET size == quotas[self].size
    IN  IF size = None THEN <<AVAILABILITY_OK, None>>
        ELSE LET orders == CountOrders(self, t1)
                 left1 == size - orders.paid
                 left2 == left1 - orders.pending
             IN  IF left1 < 0 THEN <<AVAILABILITY_GONE, 0>>
                 ELSE IF left2 <= 0 THEN <<AVAILABILITY_ORDERED, 0>>
                 ELSE LET left3 == left2 - CountInCart(self, t2)
                      IN  IF left3 <= 0 THEN <<AVAILABILITY_RESERVED, 0>>
                          ELSE <<AVAILABILITY_OK, left3>>

\* Availability with the paid count added to size_left instead of subtracted.
AvailabilityAddsPaid(self, t1, t2) ==
    LET size == quotas[self].size
    IN  IF size = None THEN <<AVAILABILITY_OK, None>>
        ELSE LET orders == CountOrders(self, t1)
                 left1 == size + orders.paid
                 left2 == left1 - orders.pending
             IN  IF left1 <= 0 THEN <<AVAILABILITY_GONE, 0>>
                 ELSE IF left2 <= 0 THEN <<AVAILABILITY_ORDERED, 0>>
                 ELSE LET left3 == left2 - CountInCart(self, t2)
                      IN  IF left3 <= 0 THEN <<AVAILABILITY_RESERVED, 0>>
                          ELSE <<AVAILABILITY_OK, left3>>

Availability(self, t1, t2) ==
    LET size == quotas[self].size
    IN  IF size = None THEN <<AVAILABILITY_OK, None>>
        ELSE LET orders == CountOrders(self, t1)
                 left1 == size - orders.paid
                 left2 == left1 - orders.pending
             IN  IF left1 <= 0 THEN <<AVAILABILITY_GONE, 0>>
                 ELSE IF left2 <= 0 THEN <<AVAILABILITY_ORDERED, 0>>
                 ELSE LET left3 == left2 - CountInCart(self, t2)
                      IN  IF left3 <= 0 THEN <<AVAILABILITY_RESERVED, 0>>
                          ELSE <<AVAILABILITY_OK, left3>>

(***************************************************************************)
(* Item.check_quotas and ItemVariation.check_quotas.                       *)
(***************************************************************************)
\* The sort key without the replacement of None by sys.maxsize.
SortKeyRawNone(s) == <<s[1], s[2]>>

\* key=lambda s: (s[0], s[1] if s[1] is not None else sys.maxsize)
SortKey(s) == <<s[1], IF s[2] # None THEN s[2] ELSE SysMaxsize>>

\* Python's < on two 2-tuples of integers.
TupleLess(a, b) == a[1] < b[1] \/ (a[1] = b[1] /\ a[2] < b[2])

\* Python's min(list, key=...): the first element no other element's key
\* is smaller than.  Only called on a non-empty list.
RECURSIVE PyMin(_)
PyMin(list) ==
    IF Len(list) = 1 THEN list[1]
    ELSE LET rest == PyMin(Tail(list))
         IN  IF TupleLess(SortKey(rest), SortKey(list[1])) THEN rest
             ELSE list[1]

\* The clock read number k of a call that starts at `now`, when the clock
\* advances by one after read number tick.
ClockRead(k, tick) == IF k <= tick THEN now ELSE now + 1

\* [q.availability() for q in order]: order is the sequence in which the
\* store returns the quotas; the j-th availability() makes reads 2j-1, 2j.
AvailabilityList(order, tick) ==
    [j \in 1..Len(order) |->
        Availability(order[j], ClockRead(2 * j - 1, tick), ClockRead(2 * j, tick))]

\* min() with a default for the empty list instead of the ValueError.
MinOfQuotasDefault(order, tick) ==
    IF Len(order) = 0
    THEN [outcome |-> "return", value |-> <<AVAILABILITY_OK, None>>]
    ELSE [outcome |-> "return", value |-> PyMin(AvailabilityList(order, tick))]

\* min() raises ValueError on an empty list.
MinOfQuotas(order, tick) ==
    IF Len(order) = 0
    THEN [outcome |-> "raise", value |-> "ValueError: min() arg is an empty sequence"]
    ELSE [outcome |-> "return", value |-> PyMin(AvailabilityList(order, tick))]

\* self.properties.count() for item i.
PropertiesCount(i) == Cardinality({p \in DOMAIN properties : properties[p] = i})

\* self.quotas.all() of an item and of a variation.
ItemQuotas(i) == {q \in Quotas : i \in quotas[q].items}
VariationQuotas(v) == {q \in Quotas : v \in quotas[q].variations}

\* The ValueError that the guard of Item.check_quotas raises.
InvalidVariationRequest ==
    "ValueError: Do not call this directly on items which have properties"

\* Item.check_quotas without its guard on the properties.
ItemCheckQuotasNoGuard(i, order, tick) == MinOfQuotas(order, tick)

ItemCheckQuotas(i, order, tick) ==
    IF PropertiesCount(i) > 0
    THEN [outcome |-> "raise", value |-> InvalidVariationRequest]
    ELSE MinOfQuotas(order, tick)

VariationCheckQuotas(v, order, tick) == MinOfQuotas(order, tick)

\* The sequences that list every element of the finite set S once.
Orderings(S) ==
    {o \in [1..Cardinality(S) -> S] : \A x \in S : \E j \in DOMAIN o : o[j] = x}

(***************************************************************************)
(* The store: order and cart positions are written by the checkout         *)
(* workflows, the clock advances on its own.                               *)
(***************************************************************************)
NoResult == [op |-> "none"]

\* The (item, variation) pairs a position can hold.
PositionTargets ==
    {<<i, None>> : i \in Items}
        \cup {<<variations[v].item, v>> : v \in DOMAIN variations}

NumPositions == BagCardinality(orderPositions) + BagCardinality(cartPositions)

\* The expiry of a reservation or of an order created now: one unit of time
\* after its creation.
NewExpiry == now + 1

AddToCart(i, v) ==
    /\ NumPositions < MaxPositions
    /\ cartPositions' = cartPositions (+)
          SetToBag({[item |-> i, variation |-> v, expires |-> NewExpiry]})
    /\ result' = NoResult
    /\ UNCHANGED <<local, now, quotas, orderPositions, catalog>>

\* An unexpired cart position becomes a position of a pending order.
Checkout(p) ==
    /\ BagIn(p, cartPositions)
    /\ p.expires >= now
    /\ cartPositions' = cartPositions (-) SetToBag({p})
    /\ orderPositions' = orderPositions (+)
          SetToBag({[item |-> p.item, variation |-> p.variation,
                     status |-> STATUS_PENDING, expires |-> NewExpiry]})
    /\ result' = NoResult
    /\ UNCHANGED <<local, now, quotas, catalog>>

\* A pending order is paid.
MarkPaid(p) ==
    /\ BagIn(p, orderPositions)
    /\ p.status = STATUS_PENDING
    /\ orderPositions' = (orderPositions (-) SetToBag({p})) (+)
          SetToBag({[p EXCEPT !.status = STATUS_PAID]})
    /\ result' = NoResult
    /\ UNCHANGED <<local, now, quotas, cartPositions, catalog>>

\* An order that is paid when it is placed (a free order, an import).
PlacePaidOrder(i, v) ==
    /\ NumPositions < MaxPositions
    /\ orderPositions' = orderPositions (+)
          SetToBag({[item |-> i, variation |-> v,
                     status |-> STATUS_PAID, expires |-> NewExpiry]})
    /\ result' = NoResult
    /\ UNCHANGED <<local, now, quotas, cartPositions, catalog>>

Tick ==
    /\ now < MaxTime
    /\ now' = now + 1
    /\ result' = NoResult
    /\ UNCHANGED <<local, quotas, orderPositions, cartPositions, catalog>>

(***************************************************************************)
(* The calls.  A call whose clock advances between two reads leaves the    *)
(* clock advanced.                                                         *)
(***************************************************************************)
\* The reads after which the clock may advance during a call of n reads
\* (n: it does not advance).
Ticks(n) == IF now < MaxTime THEN 1..n ELSE {n}

ClockAfter(n, tick) == IF tick < n THEN now + 1 ELSE now

CallAvailability(q, tick) ==
    /\ result' = [op |-> "Quota.availability", self |-> q,
                  t1 |-> ClockRead(1, tick), t2 |-> ClockRead(2, tick),
                  value |-> Availability(q, ClockRead(1, tick), ClockRead(2, tick))]
    /\ now' = ClockAfter(2, tick)
    /\ UNCHANGED <<local, quotas, orderPositions, cartPositions, catalog>>

CallItemCheckQuotas(i, order, tick) ==
    /\ result' = [op |-> "Item.check_quotas", self |-> i, order |-> order,
                  tick |-> tick] @@ ItemCheckQuotas(i, order, tick)
    /\ now' = ClockAfter(2 * Len(order), tick)
    /\ UNCHANGED <<local, quotas, orderPositions, cartPositions, catalog>>

CallVariationCheckQuotas(v, order, tick) ==
    /\ result' = [op |-> "ItemVariation.check_quotas", self |-> v, order |-> order,
                  tick |-> tick] @@ VariationCheckQuotas(v, order, tick)
    /\ now' = ClockAfter(2 * Len(order), tick)
    /\ UNCHANGED <<local, quotas, orderPositions, cartPositions, catalog>>

(***************************************************************************)
(* The quota engine's specification.                                       *)
(***************************************************************************)
\* An active product without a sale window.
AlwaysOnSale ==
    [active |-> TRUE, available_from |-> None, available_until |-> None,
     default_price |-> ItemPrice]

\* The variation of the quota engine's specifications: product 1 with
\* value 1 of its property 1.
TheVariation ==
    [item |-> 1, values |-> {1}, active |-> TRUE, default_price |-> None]

QuotaRows == [size : Sizes, items : SUBSET Items, variations : SUBSET Variations]

\* Quota 1 is any quota; quota 2 is an unlimited quota that covers the
\* product as a whole or nothing.
Init ==
    /\ now = 0
    /\ quotas \in [Quotas -> QuotaRows]
    /\ quotas[2].size = None
    /\ quotas[2].variations = {}
    /\ orderPositions = EmptyBag
    /\ cartPositions = EmptyBag
    /\ items = (1 :> AlwaysOnSale)
    /\ properties = (1 :> 1)
    /\ propertyValues = (1 :> 1)
    /\ variations = (1 :> TheVariation)
    /\ instances = [n \in Instances |-> FreshInstance(1)]
    /\ evaluation = Idle
    /\ result = NoResult

Store ==
    \/ \E t \in PositionTargets : AddToCart(t[1], t[2])
    \/ \E p \in DOMAIN cartPositions : Checkout(p)
    \/ \E p \in DOMAIN orderPositions : MarkPaid(p)
    \/ \E t \in PositionTargets : PlacePaidOrder(t[1], t[2])

Next ==
    \/ Store
    \/ Tick
    \/ \E q \in Quotas, tick \in Ticks(2) : CallAvailability(q, tick)

Spec == Init /\ [][Next]_vars

(***************************************************************************)
(* Claims about the quota engine (specification Spec).                     *)
(***************************************************************************)
\* The matching predicate as the specification words it: (a) no variation
\* and the product is in the quota's product set, or (b) a variation that
\* is in the quota's variation set.
Matches(q, p) ==
    \/ (p.variation = None /\ p.item \in quotas[q].items)
    \/ (p.variation # None /\ p.variation \in quotas[q].variations)

\* Number of positions (copies counted) of bag B that are in the set S.
NumIn(B, S) == BagSum(B, [p \in DOMAIN B |-> IF p \in S THEN 1 ELSE 0])

PaidPositions(q) ==
    {p \in DOMAIN orderPositions : Matches(q, p) /\ p.status = STATUS_PAID}
PendingPositions(q, t) ==
    {p \in DOMAIN orderPositions :
        Matches(q, p) /\ p.status = STATUS_PENDING /\ p.expires >= t}
CartedPositions(q, t) ==
    {p \in DOMAIN cartPositions : Matches(q, p) /\ p.expires >= t}

\* The layered subtraction of the specification, as a table of cases.
Layered(size, paid, pending, cart) ==
    CASE size = None -> <<AVAILABILITY_OK, None>>
      [] size # None /\ size - paid <= 0 -> <<AVAILABILITY_GONE, 0>>
      [] size # None /\ size - paid > 0 /\ size - paid - pending <= 0
            -> <<AVAILABILITY_ORDERED, 0>>
      [] size # None /\ size - paid - pending > 0
            /\ size - paid - pending - cart <= 0 -> <<AVAILABILITY_RESERVED, 0>>
      [] OTHER -> <<AVAILABILITY_OK, size - paid - pending - cart>>

\* C1: Quota.availability() returns the layered subtraction of the counts
\* it obtained from count_orders and count_in_cart: (OK, None) for an
\* unlimited quota, else GONE / ORDERED / RESERVED with remaining 0, else
\* OK with the remaining count, which is then at least 1.
C1_AvailabilityIsLayered ==
    result.op = "Quota.availability" =>
        LET q == result.self
            orders == CountOrders(q, result.t1)
            cart == CountInCart(q, result.t2)
            v == result.value
        IN  /\ v = Layered(quotas[q].size, orders.paid, orders.pending, cart)
            /\ v[1] # AVAILABILITY_OK => v[2] = 0
            /\ (v[1] = AVAILABILITY_OK /\ v[2] # None) => v[2] >= 1
            /\ v[2] = None <=> quotas[q].size = None

\* C1 witness: a finite quota reported RESERVED after all three layers,
\* with pending orders and cart reservations both contributing.
C1_Witness ==
    /\ result.op = "Quota.availability"
    /\ result.value = <<AVAILABILITY_RESERVED, 0>>
    /\ CountOrders(result.self, result.t1).pending >= 1
    /\ CountInCart(result.self, result.t2) >= 1

\* C3: at every instant, the three counts of every quota are the numbers of
\* matching positions: paid positions whatever their expiry, pending
\* positions and cart positions whose expiry is at or after the instant.
C3_CountsAreMatchingPositions ==
    \A q \in Quotas, t \in Times :
        /\ CountOrders(q, t).paid = NumIn(orderPositions, PaidPositions(q))
        /\ CountOrders(q, t).pending = NumIn(orderPositions, PendingPositions(q, t))
        /\ CountInCart(q, t) = NumIn(cartPositions, CartedPositions(q, t))

\* C3, the part that holds: while no position with a variation has its
\* product in two quotas' product sets, the counts are the numbers of
\* matching positions, with the expiry rules of the claim.
C3_CountsWithoutDuplicateRows ==
    (\A p \in DOMAIN orderPositions \cup DOMAIN cartPositions :
        p.variation # None => Cardinality(ItemQuotaRows(p.item)) <= 1)
    => C3_CountsAreMatchingPositions

\* C6: a step at one instant that increases paidCount (only a write of
\* order positions can) and leaves the capacity, the pending count and the
\* cart count as they were never moves the status of the quota toward OK.
C6_MonotonicInPaid ==
    [][\A q \in Quotas :
          (/\ orderPositions' # orderPositions
           /\ now' = now
           /\ quotas'[q].size = quotas[q].size
           /\ CountOrders(q, now).paid' > CountOrders(q, now).paid
           /\ CountOrders(q, now).pending' = CountOrders(q, now).pending
           /\ CountInCart(q, now)' = CountInCart(q, now))
          => Availability(q, now, now)'[1] <= Availability(q, now, now)[1]]_vars

\* C6 witness: a quota of capacity 2 that two paid positions, and nothing
\* else, have taken from OK to GONE.
C6_Witness ==
    \E q \in Quotas :
        /\ quotas[q].size = 2
        /\ CountOrders(q, now).paid = 2
        /\ NumIn(orderPositions, PaidPositions(q)) = 2
        /\ NumPositions = 2
        /\ Availability(q, now, now) = <<AVAILABILITY_GONE, 0>>

\* C8: a position is counted for a quota exactly when it matches (a) or
\* (b); in particular a position with a variation is not counted because
\* its product is in the quota's product set.  Order counting and cart
\* counting decide it the same way.
C8_CountedIffMatches ==
    \A q \in Quotas :
        /\ \A p \in DOMAIN orderPositions \cup DOMAIN cartPositions :
              MatchingRows(q, p) >= 1 <=> Matches(q, p)
        /\ CountOrders(q, now).paid >= 1 <=> PaidPositions(q) # {}
        /\ CountOrders(q, now).pending >= 1 <=> PendingPositions(q, now) # {}
        /\ CountInCart(q, now) >= 1 <=> CartedPositions(q, now) # {}

\* C8 witness: an order position and a cart position with a variation whose
\* product is in the quota's product set while the variation is not in its
\* variation set: neither is counted.
C8_Witness ==
    \E q \in Quotas, p \in DOMAIN orderPositions, c \in DOMAIN cartPositions :
        /\ p.variation # None /\ c.variation # None
        /\ p.status = STATUS_PAID
        /\ p.item \in quotas[q].items /\ c.item \in quotas[q].items
        /\ p.variation \notin quotas[q].variations
        /\ c.variation \notin quotas[q].variations
        /\ CountOrders(q, now).paid = 0
        /\ CountInCart(q, now) = 0

(***************************************************************************)
(* check_quotas over two quotas of any size and membership, for a product  *)
(* with or without a property.  The clock stands still here, between the   *)
(* calls and between the reads of one call.                                *)
(***************************************************************************)
InitCheck ==
    /\ now = 0
    /\ quotas \in [Quotas -> QuotaRows]
    /\ orderPositions = EmptyBag
    /\ cartPositions = EmptyBag
    /\ items = (1 :> AlwaysOnSale)
    /\ properties \in [{1} -> Items \cup {None}]
    /\ propertyValues = (1 :> 1)
    /\ variations = (1 :> TheVariation)
    /\ instances = [n \in Instances |-> FreshInstance(1)]
    /\ evaluation = Idle
    /\ result = NoResult

NextCheck ==
    \/ Store
    \/ \E i \in Items : \E order \in Orderings(ItemQuotas(i)) :
          CallItemCheckQuotas(i, order, 2 * Len(order))
    \/ \E v \in Variations : \E order \in Orderings(VariationQuotas(v)) :
          CallVariationCheckQuotas(v, order, 2 * Len(order))

SpecCheck == InitCheck /\ [][NextCheck]_vars

CheckOps == {"Item.check_quotas", "ItemVariation.check_quotas"}

\* The quotas that cover the receiver of the check_quotas call in result.
CoveringQuotas ==
    IF result.op = "Item.check_quotas" THEN ItemQuotas(result.self)
    ELSE VariationQuotas(result.self)

\* C2: check_quotas returns the pair of a covering quota whose status is
\* the minimum; among the pairs with that status it has the smallest
\* remaining, None counting as larger than any number, so that it returns
\* remaining None only if every covering quota is unlimited.
C2_MinimumOverQuotas ==
    (result.op \in CheckOps /\ result.outcome = "return") =>
        LET pairs == {Availability(q, now, now) : q \in CoveringQuotas}
            v == result.value
        IN  /\ v \in pairs
            /\ \A s \in pairs : v[1] <= s[1]
            /\ \A s \in pairs :
                  s[1] = v[1] =>
                      \/ s[2] = None
                      \/ (v[2] # None /\ v[2] <= s[2])
            /\ v[2] = None => \A q \in CoveringQuotas : quotas[q].size = None

\* C2 witness: two covering quotas, both OK, one unlimited and one with a
\* finite remaining count, which is the one returned.
C2_Witness ==
    /\ result.op \in CheckOps
    /\ result.outcome = "return"
    /\ Cardinality(CoveringQuotas) = 2
    /\ \E q \in CoveringQuotas : quotas[q].size = None
    /\ result.value[1] = AVAILABILITY_OK
    /\ result.value[2] # None

\* C4: check_quotas on a product or variation that no quota covers raises;
\* it returns no (status, remaining) pair.
C4_NoQuotaRaises ==
    (result.op \in CheckOps /\ CoveringQuotas = {}) => result.outcome = "raise"

\* C4 witness: both calls have raised on a receiver without quotas, the
\* product one on a product without properties.
C4_Witness ==
    /\ result.op \in CheckOps
    /\ CoveringQuotas = {}
    /\ result.outcome = "raise"
    /\ result.op = "Item.check_quotas" => PropertiesCount(result.self) = 0

\* C5: Item.check_quotas raises the ValueError of its guard exactly when
\* the product has a property, whatever quotas cover it.
C5_PropertiesRaise ==
    result.op = "Item.check_quotas" =>
        (PropertiesCount(result.self) > 0
            <=> (result.outcome = "raise" /\ result.value = InvalidVariationRequest))

\* C5 witness: the call has raised on a product with a property that two
\* quotas cover.
C5_Witness ==
    /\ result.op = "Item.check_quotas"
    /\ PropertiesCount(result.self) > 0
    /\ Cardinality(ItemQuotas(result.self)) = 2
    /\ result.outcome = "raise"

(***************************************************************************)
(* Item.is_available: t1 is the clock read of the available_from test, t2  *)
(* the one of the available_until test.                                    *)
(***************************************************************************)
\* is_available with the start of the sale window excluded.
IsAvailableFromExclusive(i, t1, t2) ==
    IF ~items[i].active THEN FALSE
    ELSE IF items[i].available_from # None /\ items[i].available_from >= t1
    THEN FALSE
    ELSE IF items[i].available_until # None /\ items[i].available_until < t2
    THEN FALSE
    ELSE TRUE

IsAvailable(i, t1, t2) ==
    IF ~items[i].active THEN FALSE
    ELSE IF items[i].available_from # None /\ items[i].available_from > t1
    THEN FALSE
    ELSE IF items[i].available_until # None /\ items[i].available_until < t2
    THEN FALSE
    ELSE TRUE

CallIsAvailable(i, tick) ==
    /\ result' = [op |-> "Item.is_available", self |-> i,
                  t1 |-> ClockRead(1, tick), t2 |-> ClockRead(2, tick),
                  value |-> IsAvailable(i, ClockRead(1, tick), ClockRead(2, tick))]
    /\ now' = ClockAfter(2, tick)
    /\ UNCHANGED <<local, quotas, orderPositions, cartPositions, catalog>>

\* A product with any active flag and sale window, covered by a quota of
\* capacity 1 whose positions come and go.
ItemRows ==
    [active : BOOLEAN, available_from : Times \cup {None},
     available_until : Times \cup {None}, default_price : {ItemPrice}]

InitItem ==
    /\ now = 0
    /\ quotas = (1 :> [size |-> 1, items |-> {1}, variations |-> {1}])
                @@ (2 :> [size |-> None, items |-> {}, variations |-> {}])
    /\ orderPositions = EmptyBag
    /\ cartPositions = EmptyBag
    /\ items \in [Items -> ItemRows]
    /\ properties = (1 :> 1)
    /\ propertyValues = (1 :> 1)
    /\ variations = (1 :> TheVariation)
    /\ instances = [n \in Instances |-> FreshInstance(1)]
    /\ evaluation = Idle
    /\ result = NoResult

NextItem ==
    \/ Store
    \/ Tick
    \/ \E i \in Items, tick \in Ticks(2) : CallIsAvailable(i, tick)

SpecItem == InitItem /\ [][NextItem]_vars

\* The sale window of the specification at instant t, both ends included.
OnSaleAt(i, t) ==
    /\ items[i].active
    /\ (items[i].available_from = None \/ items[i].available_from <= t)
    /\ (items[i].available_until = None \/ items[i].available_until >= t)

\* C7: is_available() returns whether the product is active and inside its
\* sale window, both ends included, at the instant of the call: a call that
\* makes both clock reads at one instant returns OnSaleAt that instant, and
\* one whose clock advances between the reads returns TRUE only if the
\* product is on sale at both reads and FALSE only if it is not at one of
\* them.  Quota sizes, orders and carts have no part in it.
C7_IsAvailableIsSaleWindow ==
    result.op = "Item.is_available" =>
        LET i == result.self
        IN  /\ result.t1 = result.t2 => result.value = OnSaleAt(i, result.t1)
            /\ result.value => (OnSaleAt(i, result.t1) /\ OnSaleAt(i, result.t2))
            /\ ~result.value => (~OnSaleAt(i, result.t1) \/ ~OnSaleAt(i, result.t2))

\* C7 witness: TRUE returned at the first instant of the window, which is
\* also its last, for a product whose quota is sold out.
C7_Witness ==
    /\ result.op = "Item.is_available"
    /\ result.value
    /\ result.t1 = result.t2
    /\ items[result.self].available_from = result.t1
    /\ items[result.self].available_until = result.t1
    /\ Availability(1, now, now) = <<AVAILABILITY_GONE, 0>>

(***************************************************************************)
(* The variation combinatorics: Item.get_all_variations,                   *)
(* Item._get_all_generated_variations, Item.get_all_available_variations,  *)
(* ItemVariation.add_values_from_string.                                   *)
(***************************************************************************)
\* The elements of a finite set of integers in ascending order.
RECURSIVE SortedInts(_)
SortedInts(S) ==
    IF S = {} THEN << >>
    ELSE LET m == CHOOSE x \in S : \A y \in S : x <= y
         IN  <<m>> \o SortedInts(S \ {m})

\* tuple(sorted(key)) for a list of (property id, value id) pairs whose
\* elements are the set S.
RECURSIVE SortedPairs(_)
SortedPairs(S) ==
    IF S = {} THEN << >>
    ELSE LET m == CHOOSE x \in S : \A y \in S : x = y \/ TupleLess(x, y)
         IN  <<m>> \o SortedPairs(S \ {m})

\* self.properties.all() of a product, as a set.
ItemProperties(i) == {p \in DOMAIN properties : properties[p] = i}

\* self.variations.all() of a product, as a set.
ItemVariations(i) == {v \in DOMAIN variations : variations[v].item = i}

\* prop.values.all(): Meta.ordering is (position, id) and every position
\* has its default, 0.
ValuesOf(p) == SortedInts({v \in DOMAIN propertyValues : propertyValues[v] = p})

\* var.values.all(), in the same ordering.
VariationValues(var) == SortedInts(variations[var].values)

\* itertools.product that yields nothing for no argument at all.
RECURSIVE ProductNoEmpty(_)
ProductNoEmpty(lists) ==
    IF Len(lists) = 0 THEN << >>
    ELSE IF Len(lists) = 1 THEN [j \in 1..Len(lists[1]) |-> <<lists[1][j]>>]
    ELSE LET rest == ProductNoEmpty(Tail(lists))
             first == Head(lists)
         IN  [j \in 1..(Len(first) * Len(rest)) |->
                 <<first[((j - 1) \div Len(rest)) + 1]>>
                     \o rest[((j - 1) % Len(rest)) + 1]]

\* itertools.product(*lists): the tuples in lexicographic order of the
\* positions, the last list varying fastest; one empty tuple for no list.
RECURSIVE Product(_)
Product(lists) ==
    IF Len(lists) = 0 THEN << << >> >>
    ELSE LET rest == Product(Tail(lists))
             first == Head(lists)
         IN  [j \in 1..(Len(first) * Len(rest)) |->
                 <<first[((j - 1) \div Len(rest)) + 1]>>
                     \o rest[((j - 1) % Len(rest)) + 1]]

\* The key get_all_variations builds for a variation: the sorted tuple of
\* the (prop_id, id) pairs of its values.
VariationKey(var) ==
    SortedPairs({<<propertyValues[v], v>> : v \in variations[var].values})

\* variations_cache after the loop over all_variations, which the store
\* returns in the sequence vorder: a later variation replaces an earlier
\* one with the same key.
VariationsCache(vorder) ==
    [key \in {VariationKey(vorder[j]) : j \in 1..Len(vorder)} |->
        LET last == CHOOSE j \in 1..Len(vorder) :
                        /\ VariationKey(vorder[j]) = key
                        /\ \A k \in 1..Len(vorder) :
                              VariationKey(vorder[k]) = key => k <= j
        IN  vorder[last]]

\* A VariationDict without entries.
EmptyDict == [values |-> << >>, variation |-> None]

\* The VariationDict of one generated combination (variation None: the
\* dict has no 'variation' key).
CombinationDict(comb, cache) ==
    IF Len(comb) = 0 THEN EmptyDict
    ELSE LET key == SortedPairs({<<propertyValues[comb[j]], comb[j]>> :
                                    j \in 1..Len(comb)})
         IN  [values |->
                 [p \in {propertyValues[comb[j]] : j \in 1..Len(comb)} |->
                     comb[CHOOSE j \in 1..Len(comb) :
                             /\ propertyValues[comb[j]] = p
                             /\ \A k \in 1..Len(comb) :
                                   propertyValues[comb[k]] = p => k <= j]],
              variation |-> IF key \in DOMAIN cache THEN cache[key] ELSE None]

\* get_all_variations (use_cache=False); porder and vorder are the
\* sequences in which the store returns the properties and the variations.
GetAllVariations(porder, vorder) ==
    LET combs == Product([j \in 1..Len(porder) |-> ValuesOf(porder[j])])
        cache == VariationsCache(vorder)
    IN  [j \in 1..Len(combs) |-> CombinationDict(combs[j], cache)]

\* The elements of sequence seq that are in the set S, in their order.
RECURSIVE Filter(_, _)
Filter(seq, S) ==
    IF Len(seq) = 0 THEN << >>
    ELSE IF Head(seq) \in S THEN <<Head(seq)>> \o Filter(Tail(seq), S)
    ELSE Filter(Tail(seq), S)

\* The staleness test of _get_all_generated_variations.
IsStale(var, propids) ==
    {propertyValues[v] : v \in variations[var].values} # propids

\* The VariationDict _get_all_generated_variations builds for a variation:
\* a later value of a property replaces an earlier one.
GeneratedDict(var) ==
    LET values == VariationValues(var)
    IN  [values |->
            [p \in {propertyValues[values[j]] : j \in 1..Len(values)} |->
                values[CHOOSE j \in 1..Len(values) :
                          /\ propertyValues[values[j]] = p
                          /\ \A k \in 1..Len(values) :
                                propertyValues[values[k]] = p => k <= j]],
         variation |-> var]

\* _get_all_generated_variations: annotate(qc=Count('quotas')) and
\* filter(qc__gt=0) keep the variations that are in a quota.
GetAllGeneratedVariations(i, vorder) ==
    LET propids == ItemProperties(i)
    IN  IF Cardinality(propids) = 0 THEN <<EmptyDict>>
        ELSE LET kept == Filter(vorder,
                                {var \in ItemVariations(i) :
                                    /\ VariationQuotas(var) # {}
                                    /\ ~IsStale(var, propids)})
             IN  [j \in 1..Len(kept) |-> GeneratedDict(kept[j])]

\* The entries 'available' and 'price' get_all_available_variations adds.
WithAvailability(i, dict) ==
    dict @@ [available |-> IF dict.variation # None
                           THEN variations[dict.variation].active ELSE TRUE,
             price |-> IF dict.variation # None
                          /\ variations[dict.variation].default_price # None
                       THEN variations[dict.variation].default_price
                       ELSE items[i].default_price]

\* The elements of a sequence of dicts whose 'available' is true.
RECURSIVE OnlyAvailable(_)
OnlyAvailable(seq) ==
    IF Len(seq) = 0 THEN << >>
    ELSE IF Head(seq).available THEN <<Head(seq)>> \o OnlyAvailable(Tail(seq))
    ELSE OnlyAvailable(Tail(seq))

\* get_all_available_variations (use_cache=False).
GetAllAvailableVariations(i, vorder) ==
    LET generated == GetAllGeneratedVariations(i, vorder)
    IN  OnlyAvailable([j \in 1..Len(generated) |-> WithAvailability(i, generated[j])])

\* add_values_from_string: the values of the variation after the pairs of
\* pk that precede the first pair without a PropertyValue row (for which
\* objects.get raises DoesNotExist) have been added.  pk is the sequence
\* of (property id, value id) pairs the string splits into.
RECURSIVE AddValuesFromString(_, _)
AddValuesFromString(values, pk) ==
    IF Len(pk) = 0 THEN [values |-> values, outcome |-> "return"]
    ELSE LET prop == Head(pk)[1]
             value == Head(pk)[2]
         IN  IF value \in DOMAIN propertyValues /\ propertyValues[value] = prop
             THEN AddValuesFromString(values \cup {value}, Tail(pk))
             ELSE [values |-> values, outcome |-> "raise"]

(***************************************************************************)
(* The catalog: properties are attached to and detached from a product,    *)
(* values and variations are created, values are deleted, and a variation  *)
(* receives values through add_values_from_string.                         *)
(***************************************************************************)
VariationIds == 1..MaxVariations

\* Property.item is written (nullable foreign key).
SaveProperty(p, i) ==
    /\ properties[p] # i
    /\ properties' = [properties EXCEPT ![p] = i]
    /\ result' = NoResult
    /\ UNCHANGED <<local, now, quotas, orderPositions, cartPositions, items,
                   propertyValues, variations>>

\* A PropertyValue row of property PropOf[v] is created.
CreateValue(v) ==
    /\ v \notin DOMAIN propertyValues
    /\ propertyValues' = propertyValues @@ (v :> PropOf[v])
    /\ result' = NoResult
    /\ UNCHANGED <<local, now, quotas, orderPositions, cartPositions, items,
                   properties, variations>>

\* A PropertyValue row is deleted; the rows of ItemVariation.values that
\* refer to it go with it.
DeleteValue(v) ==
    /\ v \in DOMAIN propertyValues
    /\ propertyValues' = [w \in DOMAIN propertyValues \ {v} |-> propertyValues[w]]
    /\ variations' = [x \in DOMAIN variations |->
                         [variations[x] EXCEPT !.values = @ \ {v}]]
    /\ result' = NoResult
    /\ UNCHANGED <<local, now, quotas, orderPositions, cartPositions, items,
                   properties>>

\* An ItemVariation row of product i is created, without values.
CreateVariation(x, i, active, price) ==
    /\ x \notin DOMAIN variations
    /\ variations' = variations @@
           (x :> [item |-> i, values |-> {}, active |-> active,
                  default_price |-> price])
    /\ result' = NoResult
    /\ UNCHANGED <<local, now, quotas, orderPositions, cartPositions, items,
                   properties, propertyValues>>

\* The strings add_values_from_string is called with: up to MaxPairs
\* pairs of a property id and a value id.
PairStrings ==
    UNION {[1..n -> Props \X ValueIds] : n \in 1..MaxPairs}

CallAddValuesFromString(x, pk) ==
    LET r == AddValuesFromString(variations[x].values, pk)
    IN  /\ variations' = [variations EXCEPT ![x].values = r.values]
        /\ result' = [op |-> "ItemVariation.add_values_from_string",
                      self |-> x, outcome |-> r.outcome]
        /\ UNCHANGED <<local, now, quotas, orderPositions, cartPositions, items,
                       properties, propertyValues>>

CallGetAllVariations(i, porder, vorder) ==
    /\ result' = [op |-> "Item.get_all_variations", self |-> i,
                  porder |-> porder,
                  value |-> GetAllVariations(porder, vorder)]
    /\ UNCHANGED <<local, now, quotas, orderPositions, cartPositions, catalog>>

CallGetAllAvailableVariations(i, vorder) ==
    /\ result' = [op |-> "Item.get_all_available_variations", self |-> i,
                  value |-> GetAllAvailableVariations(i, vorder)]
    /\ UNCHANGED <<local, now, quotas, orderPositions, cartPositions, catalog>>

\* The catalog starts empty with both properties detached; quota 1 holds
\* any set of the variation ids, which stands for adding the variation to
\* the quota when it is created.
InitVar ==
    /\ now = 0
    /\ quotas \in [Quotas -> [size : {None}, items : {{}},
                              variations : SUBSET VariationIds]]
    /\ quotas[2].variations = {}
    /\ orderPositions = EmptyBag
    /\ cartPositions = EmptyBag
    /\ items = (1 :> AlwaysOnSale)
    /\ properties = [p \in Props |-> None]
    /\ propertyValues = << >>
    /\ variations = << >>
    /\ instances = [n \in Instances |-> FreshInstance(1)]
    /\ evaluation = Idle
    /\ result = NoResult

Catalog ==
    \/ \E p \in Props, i \in Items \cup {None} : SaveProperty(p, i)
    \/ \E v \in ValueIds : CreateValue(v)
    \/ \E v \in ValueIds : DeleteValue(v)
    \/ \E x \in VariationIds, i \in Items, active \in BOOLEAN,
          price \in {None, OverridePrice} : CreateVariation(x, i, active, price)
    \/ \E x \in DOMAIN variations, pk \in PairStrings :
          CallAddValuesFromString(x, pk)

NextVar ==
    \/ Catalog
    \/ \E i \in Items :
          \E porder \in Orderings(ItemProperties(i)),
             vorder \in Orderings(ItemVariations(i)) :
                CallGetAllVariations(i, porder, vorder)
    \/ \E i \in Items :
          \E vorder \in Orderings(ItemVariations(i)) :
                CallGetAllAvailableVariations(i, vorder)

SpecVar == InitVar /\ [][NextVar]_vars
(***************************************************************************)
(* Claims about the variation combinatorics.  The catalog is the one the   *)
(* call has read: every write resets result.                               *)
(***************************************************************************)
\* The number of values property p has.
ValueCount(p) == Cardinality({v \in DOMAIN propertyValues : propertyValues[v] = p})

\* The product of the value counts of the properties in S; 1 for none.
RECURSIVE ProductOfValueCounts(_)
ProductOfValueCounts(S) ==
    IF S = {} THEN 1
    ELSE LET p == CHOOSE x \in S : TRUE
         IN  ValueCount(p) * ProductOfValueCounts(S \ {p})

\* The canonical key of a combination: its (property, value) pairs.
CanonicalKey(dict) == {<<p, dict.values[p]>> : p \in DOMAIN dict.values}

\* The variation's values cover exactly the properties of product i: one
\* value of each property and no other value.
CoversExactly(x, i) ==
    /\ {propertyValues[v] : v \in variations[x].values} = ItemProperties(i)
    /\ Cardinality(variations[x].values) = Cardinality(ItemProperties(i))

\* The variations attached to the combinations of a result.
Attached(value) ==
    {value[j].variation : j \in 1..Len(value)} \ {None}

\* C9: full mode returns as many combinations as the product of the value
\* counts of the product's properties (one empty combination for no
\* property, none when a property has no value); each combination holds
\* exactly one value of each property, and no two combinations of the
\* result have the same canonical key.
C9_FullModeIsCartesianProduct ==
    result.op = "Item.get_all_variations" =>
        LET props == ItemProperties(result.self)
            value == result.value
        IN  /\ Len(value) = ProductOfValueCounts(props)
            /\ props = {} => value = <<EmptyDict>>
            /\ \A j \in 1..Len(value) :
                  /\ DOMAIN value[j].values = props
                  /\ \A p \in props :
                        /\ value[j].values[p] \in DOMAIN propertyValues
                        /\ propertyValues[value[j].values[p]] = p
            /\ \A j, k \in 1..Len(value) :
                  j # k => CanonicalKey(value[j]) # CanonicalKey(value[k])

\* C9 witness: full mode has returned two combinations for a product with
\* two properties, one of them with its variation attached.
C9_Witness ==
    /\ result.op = "Item.get_all_variations"
    /\ Cardinality(ItemProperties(result.self)) = 2
    /\ Len(result.value) = 2
    /\ Attached(result.value) # {}

\* C9 witness of the empty product: a property without values yields no
\* combination at all.
C9_WitnessNoValues ==
    /\ result.op = "Item.get_all_variations"
    /\ ItemProperties(result.self) # {}
    /\ Len(result.value) = 0

\* C10: neither full mode nor sellable mode attaches a variation whose
\* values do not cover exactly the current properties of the product.
C10_StaleNeverAttached ==
    result.op \in {"Item.get_all_variations", "Item.get_all_available_variations"} =>
        \A x \in Attached(result.value) : CoversExactly(x, result.self)

\* C10, full mode alone: every attached variation covers exactly the
\* current properties.
C10_FullModeSkipsStale ==
    result.op = "Item.get_all_variations" =>
        \A x \in Attached(result.value) : CoversExactly(x, result.self)

\* C10, sellable mode: every attached variation has values of exactly the
\* current properties, though possibly several of one property.
C10_SellableModeSkipsOtherProperties ==
    result.op = "Item.get_all_available_variations" =>
        \A x \in Attached(result.value) :
            {propertyValues[v] : v \in variations[x].values}
                = ItemProperties(result.self)

\* C10: sellable mode has attached a variation that carries two values of
\* one property.
C10_SellableAttachesTwoValuesOfOneProperty ==
    /\ result.op = "Item.get_all_available_variations"
    /\ \E x \in Attached(result.value) :
          Cardinality(variations[x].values) > Cardinality(ItemProperties(result.self))

\* The variations of product i the specification calls sellable: active
\* and covering exactly the current properties.
SellableVariations(i) ==
    {x \in ItemVariations(i) : variations[x].active /\ CoversExactly(x, i)}

\* The price the specification gives a combination: the override price of
\* its variation if there is one, else the default price of the product.
EffectivePrice(i, dict) ==
    IF dict.variation # None /\ variations[dict.variation].default_price # None
    THEN variations[dict.variation].default_price
    ELSE items[i].default_price

\* C11: sellable mode returns, for a product with properties, the
\* combinations of the active variations that cover exactly the current
\* properties and only those; for a product without properties it returns
\* one combination without variation, available; every returned
\* combination carries the override price of its variation if there is
\* one, else the default price of the product.
C11_SellableIsActiveNonStale ==
    result.op = "Item.get_all_available_variations" =>
        LET i == result.self
            value == result.value
        IN  /\ ItemProperties(i) = {} =>
                  value = <<[values |-> << >>, variation |-> None,
                             available |-> TRUE,
                             price |-> items[i].default_price]>>
            /\ ItemProperties(i) # {} =>
                  /\ \A j \in 1..Len(value) : value[j].variation # None
                  /\ Attached(value) = SellableVariations(i)
            /\ \A j \in 1..Len(value) :
                  /\ value[j].available
                  /\ value[j].price = EffectivePrice(i, value[j])

\* C11, what does hold: the variations sellable mode returns are the
\* active ones that are in a quota and whose values belong to exactly the
\* current properties; the zero-property case and the prices are as
\* stated.
C11_SellableIsActiveInQuotaSamePropertySet ==
    result.op = "Item.get_all_available_variations" =>
        LET i == result.self
            value == result.value
        IN  /\ ItemProperties(i) = {} =>
                  value = <<[values |-> << >>, variation |-> None,
                             available |-> TRUE,
                             price |-> items[i].default_price]>>
            /\ ItemProperties(i) # {} =>
                  /\ \A j \in 1..Len(value) : value[j].variation # None
                  /\ Attached(value) =
                        {x \in ItemVariations(i) :
                            /\ variations[x].active
                            /\ VariationQuotas(x) # {}
                            /\ ~IsStale(x, ItemProperties(i))}
            /\ \A j \in 1..Len(value) :
                  /\ value[j].available
                  /\ value[j].price = EffectivePrice(i, value[j])

\* C11: sellable mode has returned no combination for a product whose
\* only variation is active and covers exactly its properties, but is in
\* no quota.
C11_SellableOmitsVariationWithoutQuota ==
    /\ result.op = "Item.get_all_available_variations"
    /\ ItemProperties(result.self) # {}
    /\ SellableVariations(result.self) # {}
    /\ \A x \in SellableVariations(result.self) : VariationQuotas(x) = {}
    /\ Len(result.value) = 0

(***************************************************************************)
(* The combination caches: get_all_variations and                          *)
(* get_all_available_variations keep their result in an attribute of the   *)
(* Item object they are called on.                                         *)
(***************************************************************************)
\* A cached method that returns its cache attribute whenever it is set.
AlwaysCached(use_cache, cache, computed) ==
    IF cache.set THEN cache.value ELSE computed

\* "if use_cache and hasattr(self, cache): return cache", else the value
\* the method computes.
CachedOrComputed(use_cache, cache, computed) ==
    IF use_cache /\ cache.set THEN cache.value ELSE computed

\* The store returns a new Item object of row i, which takes the place of
\* object n.
LoadInstance(n, i) ==
    /\ instances[n] # FreshInstance(i)
    /\ instances' = [instances EXCEPT ![n] = FreshInstance(i)]
    /\ result' = NoResult
    /\ UNCHANGED <<now, quotas, orderPositions, cartPositions, catalog,
                   evaluation>>

\* get_all_variations(use_cache) on object n.
CallGetAllVariationsOn(n, use_cache, porder, vorder) ==
    LET value == CachedOrComputed(use_cache,
                                  instances[n]._get_all_variations_cache,
                                  GetAllVariations(porder, vorder))
    IN  /\ instances' = [instances EXCEPT ![n]._get_all_variations_cache =
                            [set |-> TRUE, value |-> value]]
        /\ result' = [op |-> "Item.get_all_variations",
                      self |-> instances[n].item, instance |-> n,
                      use_cache |-> use_cache, value |-> value]
        /\ UNCHANGED <<now, quotas, orderPositions, cartPositions, catalog,
                       evaluation>>

\* get_all_available_variations(use_cache) on object n.
CallGetAllAvailableVariationsOn(n, use_cache, vorder) ==
    LET value == CachedOrComputed(use_cache,
                     instances[n]._get_all_available_variations_cache,
                     GetAllAvailableVariations(instances[n].item, vorder))
    IN  /\ instances' =
               [instances EXCEPT ![n]._get_all_available_variations_cache =
                   [set |-> TRUE, value |-> value]]
        /\ result' = [op |-> "Item.get_all_available_variations",
                      self |-> instances[n].item, instance |-> n,
                      use_cache |-> use_cache, value |-> value]
        /\ UNCHANGED <<now, quotas, orderPositions, cartPositions, catalog,
                       evaluation>>

\* A product with one property that has one value, and one variation of
\* that value in quota 1.
InitCache ==
    /\ now = 0
    /\ quotas = (1 :> [size |-> None, items |-> {}, variations |-> {1}])
                @@ (2 :> [size |-> None, items |-> {}, variations |-> {}])
    /\ orderPositions = EmptyBag
    /\ cartPositions = EmptyBag
    /\ items = (1 :> AlwaysOnSale)
    /\ properties = (1 :> 1) @@ (2 :> None)
    /\ propertyValues = (1 :> 1)
    /\ variations = (1 :> TheVariation)
    /\ instances = [n \in Instances |-> FreshInstance(1)]
    /\ evaluation = Idle
    /\ result = NoResult

\* The catalog writes between the calls: property 1 is detached and
\* attached, its values are created and deleted, the variation gets values.
CatalogOfCache ==
    \/ \E i \in Items \cup {None} : SaveProperty(1, i)
    \/ \E v \in {2} : CreateValue(v)
    \/ \E v \in {1, 2} : DeleteValue(v)
    \/ \E x \in DOMAIN variations, pk \in PairStrings :
          CallAddValuesFromString(x, pk)

NextCache ==
    \/ CatalogOfCache
    \/ \E n \in Instances, i \in Items : LoadInstance(n, i)
    \/ \E n \in Instances, use_cache \in BOOLEAN :
          \E porder \in Orderings(ItemProperties(instances[n].item)),
             vorder \in Orderings(ItemVariations(instances[n].item)) :
                CallGetAllVariationsOn(n, use_cache, porder, vorder)
    \/ \E n \in Instances, use_cache \in BOOLEAN :
          \E vorder \in Orderings(ItemVariations(instances[n].item)) :
                CallGetAllAvailableVariationsOn(n, use_cache, vorder)

SpecCache == InitCache /\ [][NextCache]_vars

CacheOps == {"Item.get_all_variations", "Item.get_all_available_variations"}

\* The name of the attribute a cached method keeps its result in.
CacheAttribute(op) ==
    IF op = "Item.get_all_variations" THEN "_get_all_variations_cache"
    ELSE "_get_all_available_variations_cache"

\* The results the method op can compute for product i from the catalog as
\* it is, one for each order in which the store may return the rows.
ComputedNow(op, i) ==
    IF op = "Item.get_all_variations"
    THEN {GetAllVariations(porder, vorder) :
             porder \in Orderings(ItemProperties(i)),
             vorder \in Orderings(ItemVariations(i))}
    ELSE {GetAllAvailableVariations(i, vorder) :
             vorder \in Orderings(ItemVariations(i))}

\* What a step in which a cached method returns on object n does.
CacheStep ==
    LET op == result'.op
        n == result'.instance
        attr == CacheAttribute(op)
        old == instances[n][attr]
    IN  /\ (result'.use_cache /\ old.set) => result'.value = old.value
        /\ ~(result'.use_cache /\ old.set) =>
               result'.value \in ComputedNow(op, instances[n].item)
        /\ instances' = [instances EXCEPT
                            ![n][attr] = [set |-> TRUE, value |-> result'.value]]

\* C12: a call with use_cache=True on an object on which the same method
\* has returned before returns that earlier result, whatever the catalog
\* has become; any other call returns a result computed from the catalog
\* as it is; the result of a call is kept on the object it was made on
\* only, and no other step changes what an object keeps, except that
\* loading replaces an object by one that keeps nothing.
C12_CachePerInstance ==
    [][IF result'.op \in CacheOps
       THEN CacheStep
       ELSE \A n \in Instances :
               \/ instances'[n] = instances[n]
               \/ instances'[n] = FreshInstance(instances'[n].item)]_vars

\* C12 witness: a call with use_cache=True has returned a result that the
\* catalog as it is no longer yields, while the other object keeps a
\* different result of the same method.
C12_Witness ==
    /\ result.op = "Item.get_all_variations"
    /\ result.use_cache
    /\ result.value \notin ComputedNow(result.op, result.self)
    /\ \E k \in Instances \ {result.instance} :
          /\ instances[k]._get_all_variations_cache.set
          /\ instances[k]._get_all_variations_cache.value # result.value
          /\ instances[k].item = result.self

(***************************************************************************)
(* Quota.availability() step by step: its two queries, count_orders() and  *)
(* count_in_cart(), are separate statements without transaction or lock,   *)
(* so a checkout can commit between them.                                  *)
(***************************************************************************)
\* availability() up to its second query: the pair it returns, or the
\* size_left it goes on with (status None).
AvailabilityAfterOrders(size, orders) ==
    IF size = None THEN <<AVAILABILITY_OK, None>>
    ELSE IF size - orders.paid <= 0 THEN <<AVAILABILITY_GONE, 0>>
    ELSE IF size - orders.paid - orders.pending <= 0
    THEN <<AVAILABILITY_ORDERED, 0>>
    ELSE <<None, size - orders.paid - orders.pending>>

\* availability() from its second query on.
AvailabilityAfterCart(size_left, cart) ==
    IF size_left - cart <= 0 THEN <<AVAILABILITY_RESERVED, 0>>
    ELSE <<AVAILABILITY_OK, size_left - cart>>

\* availability() is called on quota q and runs up to and including
\* count_orders(); it returns if the orders decide the outcome.
BeginAvailability(q) ==
    LET r == AvailabilityAfterOrders(quotas[q].size, CountOrders(q, now))
    IN  /\ evaluation = Idle
        /\ IF r[1] = None
           THEN /\ evaluation' = [pc |-> "count_in_cart", self |-> q,
                                  size_left |-> r[2]]
                /\ result' = NoResult
           ELSE /\ evaluation' = Idle
                /\ result' = [op |-> "Quota.availability/steps", self |-> q,
                              value |-> r]
        /\ UNCHANGED <<now, quotas, orderPositions, cartPositions, catalog,
                       instances>>

\* The call in progress runs count_in_cart() and returns.
EndAvailability ==
    /\ evaluation # Idle
    /\ result' = [op |-> "Quota.availability/steps", self |-> evaluation.self,
                  value |-> AvailabilityAfterCart(
                                evaluation.size_left,
                                CountInCart(evaluation.self, now))]
    /\ evaluation' = Idle
    /\ UNCHANGED <<now, quotas, orderPositions, cartPositions, catalog,
                   instances>>

\* While a call is in progress the only writes are checkouts; the clock
\* advances at any time.
NextSteps ==
    \/ (evaluation = Idle /\ Store)
    \/ \E p \in DOMAIN cartPositions : Checkout(p)
    \/ Tick
    \/ \E q \in Quotas : BeginAvailability(q)
    \/ EndAvailability

SpecSteps == Init /\ [][NextSteps]_vars

\* The positions that hold capacity of quota q at instant t: paid ones,
\* pending ones and cart reservations that have not expired.
HoldingCapacity(q, t) ==
    NumIn(orderPositions, PaidPositions(q))
        + NumIn(orderPositions, PendingPositions(q, t))
        + NumIn(cartPositions, CartedPositions(q, t))

\* C13: an availability() evaluation that runs concurrently with checkouts
\* never reports OK with a remaining count above the capacity minus the
\* positions that held capacity throughout the evaluation.  During an
\* evaluation positions are only checked out and expire, so the positions
\* that held capacity throughout are those that hold it when it returns.
C13_NoUndercountDuringCheckout ==
    (/\ result.op = "Quota.availability/steps"
     /\ result.value[1] = AVAILABILITY_OK
     /\ result.value[2] # None)
        => result.value[2] <= quotas[result.self].size
                                 - HoldingCapacity(result.self, now)

\* C13: availability() has reported OK with the full capacity remaining
\* although a position that was checked out during the evaluation holds
\* capacity.
C13_CheckedOutPositionNotCounted ==
    /\ result.op = "Quota.availability/steps"
    /\ result.value[1] = AVAILABILITY_OK
    /\ result.value[2] = quotas[result.self].size
    /\ NumIn(orderPositions, PendingPositions(result.self, now)) > 0

(***************************************************************************)
(* Claims about the passing of time (specification Spec).                  *)
(***************************************************************************)
\* Every pending order and every cart reservation has expired at instant t.
AllExpired(t) ==
    /\ \A p \in DOMAIN orderPositions :
          p.status = STATUS_PENDING => p.expires < t
    /\ \A p \in DOMAIN cartPositions : p.expires < t

\* C14: in a step that advances the clock and writes nothing, the status
\* of no quota moves toward GONE, whether availability() makes both its
\* clock reads before the step, both after it, or one on each side; a
\* quota that was GONE is still GONE; and if every pending order and cart
\* reservation has expired after the step, a quota whose capacity exceeds
\* the paid count that count_orders() returns is OK.
C14_TimeNeverMovesTowardGone ==
    [][(/\ now' > now
        /\ quotas' = quotas
        /\ orderPositions' = orderPositions
        /\ cartPositions' = cartPositions)
       => \A q \in Quotas :
             LET before == Availability(q, now, now)[1]
                 during == Availability(q, now, now')[1]
                 after == Availability(q, now', now')[1]
             IN  /\ before <= during
                 /\ during <= after
                 /\ before = AVAILABILITY_GONE => after = AVAILABILITY_GONE
                 /\ (/\ AllExpired(now')
                     /\ quotas[q].size # None
                     /\ quotas[q].size > CountOrders(q, now').paid)
                       => after = AVAILABILITY_OK]_vars

\* C14 witness: availability() has returned OK, with a finite remaining
\* count, for a quota that the same positions held at ORDERED at an
\* earlier instant; every pending order and cart reservation has expired.
C14_Witness ==
    /\ result.op = "Quota.availability"
    /\ result.t1 = now /\ result.t2 = now
    /\ result.value[1] = AVAILABILITY_OK
    /\ result.value[2] # None
    /\ AllExpired(now)
    /\ \E t \in 0..(now - 1) :
          Availability(result.self, t, t)[1] = AVAILABILITY_ORDERED

====
